---- MODULE Spec2Model ----
(***************************************************************************)
(* Patient management API (src/main.py): a FastAPI service that keeps all  *)
(* patient records in one JSON file, patient.json, and rewrites the whole  *)
(* file on every mutation.                                                 *)
(*                                                                         *)
(* Units.  Python floats are modelled as fixed-point integers:             *)
(*   height  in centimetres       (175  is 1.75 m)                         *)
(*   weight  in kilograms         (70   is 70.0 kg)                        *)
(*   bmi     in hundredths        (2286 is 22.86)                          *)
(* Every field keeps one type; pydantic's lax coercions are not modelled.  *)
(***************************************************************************)
EXTENDS Integers, Sequences, FiniteSets, TLC

VARIABLES
    patient_json,   \* content of patient.json: sequence of [id, body], in key order
    request,        \* the request the server has just answered ([op |-> "none"] when idle)
    response,       \* the answer to it: [status, body]
    before,         \* content of patient.json when that request arrived
    io,             \* the file calls the handler made: sequence of "load" / "save"
    pc,             \* concurrent workers: position of each worker inside edit_patient
    data,           \* concurrent workers: each worker's local variable `data`
    job,            \* concurrent workers: each worker's (patient_id, patient_update)
    result,         \* concurrent workers: each worker's HTTP status (0 = none yet)
    trace           \* concurrent workers: the file calls made so far, [w, call], in order

vars == <<patient_json, request, response, before, io, pc, data, job, result, trace>>

seqVars == <<patient_json, request, response, before, io>>
concVars == <<pc, data, job, result, trace>>

-----------------------------------------------------------------------------
(* Input domains: the values request payloads are drawn from.              *)

PatientIds == {"P001", "P002"}
Null == "<null>"                       \* JSON null / Python None in a string field
NameInputs == {"A"}
CityInputs == {"X"}
AgeInputs == {0, 30, 120}
GenderLiterals == {"male", "female", "Other"}
GenderInputs == {"male", "other"}
HeightInputs == {0, 100, 175}
WeightInputs == {0, 30, 70}
BmiInputs == {9999}                    \* a bmi a client tries to send in the payload
SortFieldInputs == {"height", "weight", "bmi", "xyz"}
OrderInputs == {"asc", "desc", "decs"}

-----------------------------------------------------------------------------
(* Derived fields of Patient.                                              *)

\* Python round(n/d, 0) for n >= 0, d > 0: nearest integer, ties to even.
RoundDiv(n, d) ==
    LET q == n \div d
        r == n % d
    IN  IF 2 * r < d THEN q
        ELSE IF 2 * r > d THEN q + 1
        ELSE IF q % 2 = 0 THEN q ELSE q + 1

\* round(weight / height ** 2, 2), in hundredths; height = 0 raises ZeroDivisionError
bmiDefined(height) == height # 0

bmi(height, weight) == RoundDiv(weight * 1000000, height * height)

\* a slip: the boundary value counted as above the threshold
verdict_Inclusive(b) ==
    IF b < 1850 THEN "Underweight"
    ELSE IF 1850 <= b /\ b < 3000 THEN "Normal"
    ELSE "Overweight"

verdict(b) ==
    IF b < 1850 THEN "Underweight"
    ELSE IF 1850 <= b /\ b < 3000 THEN "Normal"
    ELSE IF b > 3000 THEN "Overweight"
    ELSE "Obese"

-----------------------------------------------------------------------------
(* class Patient: field constraints and model_dump.                        *)

PatientFields == {"id", "name", "city", "age", "gender", "height", "weight"}

\* Patient(**kw) validates: every field required; extra keys (bmi, verdict) are ignored
PatientValid(kw) ==
    /\ PatientFields \subseteq DOMAIN kw
    /\ kw.name # Null
    /\ kw.city # Null
    /\ kw.age >= 0 /\ kw.age < 120
    /\ kw.gender \in GenderLiterals
    /\ kw.height >= 0
    /\ kw.weight >= 0

\* patient.model_dump(exclude=['id']) evaluates the computed fields
DumpDefined(kw) == bmiDefined(kw.height)

\* a slip: a bmi already among the keyword arguments is kept instead of recomputed
model_dump_KeepBmi(kw) ==
    LET b == IF "bmi" \in DOMAIN kw THEN kw.bmi ELSE bmi(kw.height, kw.weight)
    IN  [name |-> kw.name, city |-> kw.city, age |-> kw.age, gender |-> kw.gender,
         height |-> kw.height, weight |-> kw.weight,
         bmi |-> b, verdict |-> verdict(b)]

model_dump(kw) ==
    [name |-> kw.name, city |-> kw.city, age |-> kw.age, gender |-> kw.gender,
     height |-> kw.height, weight |-> kw.weight,
     bmi |-> bmi(kw.height, kw.weight),
     verdict |-> verdict(bmi(kw.height, kw.weight))]

-----------------------------------------------------------------------------
(* class PatientUpdate: every field optional; a patch is the record of the   *)
(* fields the client set (model_dump(exclude_unset=True)).                   *)

UpdateFields == {"name", "city", "age", "gender", "height", "weight"}

PatientUpdateValid(patch) ==
    /\ ("age" \in DOMAIN patch) => patch.age > 0
    /\ ("gender" \in DOMAIN patch) => patch.gender \in GenderLiterals
    /\ ("height" \in DOMAIN patch) => patch.height > 0
    /\ ("weight" \in DOMAIN patch) => patch.weight > 0

\* the fields PatientUpdate keeps: unknown keys of the body are dropped
exclude_unset(patch) == [f \in (DOMAIN patch) \cap UpdateFields |-> patch[f]]

-----------------------------------------------------------------------------
(* The dict loaded from patient.json, kept in key order.                   *)

load_data(file) == file
save_data(d) == d

Keys(d) == {d[i].id : i \in DOMAIN d}
IndexOf(d, id) == CHOOSE i \in DOMAIN d : d[i].id = id
Get(d, id) == d[IndexOf(d, id)].body
Values(d) == [i \in DOMAIN d |-> d[i].body]

\* a slip: an existing key is written at the first position, not at its own
SetItem_Front(d, id, body) ==
    IF id \in Keys(d)
    THEN [d EXCEPT ![1] = [id |-> id, body |-> body]]
    ELSE Append(d, [id |-> id, body |-> body])

\* data[id] = body: a new key goes last, an existing key keeps its place
SetItem(d, id, body) ==
    IF id \in Keys(d)
    THEN [d EXCEPT ![IndexOf(d, id)] = [id |-> id, body |-> body]]
    ELSE Append(d, [id |-> id, body |-> body])

\* a slip: the first entry is dropped, whatever its key
DelItem_First(d, id) == Tail(d)

\* del data[id]
DelItem(d, id) == SelectSeq(d, LAMBDA e : e.id # id)

\* a slip: the merge runs the wrong way round, stored values win over the patch
Merge_KeepExisting(existing, patch) ==
    [f \in (DOMAIN existing) \cup (DOMAIN patch) |->
        IF f \in DOMAIN existing THEN existing[f] ELSE patch[f]]

\* for key, value in updated_patient_info.items(): existing_patient_info[key] = value
Merge(existing, patch) ==
    [f \in (DOMAIN existing) \cup (DOMAIN patch) |->
        IF f \in DOMAIN patch THEN patch[f] ELSE existing[f]]

-----------------------------------------------------------------------------
(* sorted(data.values(), key=lambda x: x.get(sort_by, 0), reverse=...)     *)

SortKey(body, sort_by) == IF sort_by \in DOMAIN body THEN body[sort_by] ELSE 0

\* x goes behind every element that does not sort after it (a stable sort)
RECURSIVE InsertSorted(_, _, _, _)
InsertSorted(s, x, sort_by, reverse) ==
    IF s = <<>> THEN <<x>>
    ELSE LET kx == SortKey(x, sort_by)
             kh == SortKey(Head(s), sort_by)
             xFirst == IF reverse THEN kx > kh ELSE kx < kh
         IN  IF xFirst THEN <<x>> \o s
             ELSE <<Head(s)>> \o InsertSorted(Tail(s), x, sort_by, reverse)

RECURSIVE sorted(_, _, _)
sorted(s, sort_by, reverse) ==
    IF s = <<>> THEN <<>>
    ELSE InsertSorted(sorted(SubSeq(s, 1, Len(s) - 1), sort_by, reverse),
                      s[Len(s)], sort_by, reverse)

-----------------------------------------------------------------------------
(* The handlers, as functions of the file content and the request.  Each  *)
(* yields the HTTP status, the response body, the file content afterwards *)
(* and the file calls made.  422 is FastAPI's rejection of a body that     *)
(* fails the declared model; 500 is an exception escaping the handler.     *)

Reply(status, body, file, calls) ==
    [status |-> status, body |-> body, file |-> file, io |-> calls]

valid_fields == {"height", "weight", "bmi"}
valid_orders == {"asc", "decs"}

View(file) == Reply(200, load_data(file), file, <<"load">>)

view_patient(file, patient_id) ==
    LET d == load_data(file)
    IN  IF patient_id \in Keys(d)
        THEN Reply(200, Get(d, patient_id), file, <<"load">>)
        ELSE Reply(404, "Patient not found", file, <<"load">>)

sort_patients(file, sort_by, order) ==
    IF sort_by \notin valid_fields
    THEN Reply(404, "Invalid field", file, <<>>)
    ELSE IF order \notin valid_orders
    THEN Reply(404, "Invalid order", file, <<>>)
    ELSE LET d == load_data(file)
         IN  Reply(200, sorted(Values(d), sort_by, order = "decs"), file, <<"load">>)

\* a slip: no test for an existing id, the new record replaces the stored one
create_patient_Overwrite(file, patient) ==
    IF ~PatientValid(patient)
    THEN Reply(422, "validation error", file, <<>>)
    ELSE LET d == load_data(file)
         IN  IF ~DumpDefined(patient)
             THEN Reply(500, "ZeroDivisionError", file, <<"load">>)
             ELSE Reply(201, "Patient created successfully",
                        save_data(SetItem(d, patient.id, model_dump(patient))),
                        <<"load", "save">>)

create_patient(file, patient) ==
    IF ~PatientValid(patient)
    THEN Reply(422, "validation error", file, <<>>)
    ELSE LET d == load_data(file)
         IN  IF patient.id \in Keys(d)
             THEN Reply(400, "Patient with this ID already exists", file, <<"load">>)
             ELSE IF ~DumpDefined(patient)
             THEN Reply(500, "ZeroDivisionError", file, <<"load">>)
             ELSE Reply(201, "Patient created successfully",
                        save_data(SetItem(d, patient.id, model_dump(patient))),
                        <<"load", "save">>)

\* a slip: the merged dict, id included, is stored instead of the dump without id
edit_merge_KeepId(d, patient_id, body) ==
    IF patient_id \notin Keys(d)
    THEN [status |-> 404, body |-> "Patient not found", data |-> d]
    ELSE LET merged == Merge(Merge(Get(d, patient_id), exclude_unset(body)),
                             [id |-> patient_id])
         IN  IF ~PatientValid(merged)
             THEN [status |-> 500, body |-> "ValidationError", data |-> d]
             ELSE IF ~DumpDefined(merged)
             THEN [status |-> 500, body |-> "ZeroDivisionError", data |-> d]
             ELSE [status |-> 200, body |-> "Patient updated successfully",
                   data |-> SetItem(d, patient_id,
                                    Merge(merged, model_dump(merged)))]

\* edit_patient between load_data and save_data: the 404 test, the merge, the
\* re-validation through Patient and the dump; `data` is the dict to be saved
edit_merge(d, patient_id, body) ==
    IF patient_id \notin Keys(d)
    THEN [status |-> 404, body |-> "Patient not found", data |-> d]
    ELSE LET merged == Merge(Merge(Get(d, patient_id), exclude_unset(body)),
                             [id |-> patient_id])
         IN  IF ~PatientValid(merged)
             THEN [status |-> 500, body |-> "ValidationError", data |-> d]
             ELSE IF ~DumpDefined(merged)
             THEN [status |-> 500, body |-> "ZeroDivisionError", data |-> d]
             ELSE [status |-> 200, body |-> "Patient updated successfully",
                   data |-> SetItem(d, patient_id, model_dump(merged))]

\* a slip: the merged dict is saved before Patient re-validates it
edit_patient_SaveFirst(file, patient_id, body) ==
    IF ~PatientUpdateValid(body)
    THEN Reply(422, "validation error", file, <<>>)
    ELSE LET d == load_data(file)
             r == edit_merge(d, patient_id, body)
         IN  IF r.status = 200
             THEN Reply(200, r.body, save_data(r.data), <<"load", "save">>)
             ELSE IF r.status = 404
             THEN Reply(404, r.body, file, <<"load">>)
             ELSE Reply(r.status, r.body,
                        save_data(SetItem(d, patient_id,
                                          Merge(Get(d, patient_id), exclude_unset(body)))),
                        <<"load", "save">>)

edit_patient(file, patient_id, body) ==
    IF ~PatientUpdateValid(body)
    THEN Reply(422, "validation error", file, <<>>)
    ELSE LET r == edit_merge(load_data(file), patient_id, body)
         IN  IF r.status = 200
             THEN Reply(200, r.body, save_data(r.data), <<"load", "save">>)
             ELSE Reply(r.status, r.body, file, <<"load">>)

delete(file, patient_id) ==
    LET d == load_data(file)
    IN  IF patient_id \notin Keys(d)
        THEN Reply(404, "Patient not found", file, <<"load">>)
        ELSE Reply(200, "Patient deleted Successfully",
                   save_data(DelItem(d, patient_id)), <<"load", "save">>)

-----------------------------------------------------------------------------
(* Request payloads.                                                       *)

MaxPatchFields == 2     \* a PUT body sets at most this many keys

NoFields == [f \in {} |-> 0]

\* POST /create bodies: all seven fields, with or without a client-supplied bmi
CreateBodies ==
    LET full == [id : PatientIds, name : NameInputs, city : CityInputs,
                 age : AgeInputs, gender : GenderInputs,
                 height : HeightInputs, weight : WeightInputs]
    IN  full \cup {p @@ [bmi |-> b] : p \in full, b \in BmiInputs}

\* PUT /edit bodies: any choice of keys, each with any input value
EditBodies ==
    LET nameKey   == {NoFields} \cup {[name |-> v] : v \in NameInputs \cup {Null}}
        cityKey   == {NoFields} \cup {[city |-> v] : v \in CityInputs}
        ageKey    == {NoFields} \cup {[age |-> v] : v \in AgeInputs}
        genderKey == {NoFields} \cup {[gender |-> v] : v \in GenderInputs}
        heightKey == {NoFields} \cup {[height |-> v] : v \in HeightInputs}
        weightKey == {NoFields} \cup {[weight |-> v] : v \in WeightInputs}
        bmiKey    == {NoFields} \cup {[bmi |-> v] : v \in BmiInputs}
        all == {a @@ b @@ c @@ d @@ e @@ f @@ g :
                   a \in nameKey, b \in cityKey, c \in ageKey, d \in genderKey,
                   e \in heightKey, f \in weightKey, g \in bmiKey}
    IN  {p \in all : Cardinality(DOMAIN p) <= MaxPatchFields}

-----------------------------------------------------------------------------
(* Sequential service: one request is handled from start to end before the *)
(* next one arrives.                                                       *)

NoRequest == [op |-> "none"]
NoResponse == [status |-> 0, body |-> ""]

Workers == {1, 2}

ConcIdle ==
    /\ pc = [w \in Workers |-> "idle"]
    /\ data = [w \in Workers |-> <<>>]
    /\ job = [w \in Workers |-> [id |-> "", body |-> NoFields]]
    /\ result = [w \in Workers |-> 0]
    /\ trace = <<>>

Init ==
    /\ patient_json = <<>>
    /\ request = NoRequest
    /\ response = NoResponse
    /\ before = <<>>
    /\ io = <<>>
    /\ ConcIdle

Idle == request.op = "none"

\* the handler runs to its end: the file is what it left, the client gets the reply
Respond(req, r) ==
    /\ Idle
    /\ request' = req
    /\ response' = [status |-> r.status, body |-> r.body]
    /\ before' = patient_json
    /\ patient_json' = r.file
    /\ io' = r.io
    /\ UNCHANGED concVars

GetView == Respond([op |-> "view"], View(patient_json))

GetPatient ==
    \E id \in PatientIds :
        Respond([op |-> "read", id |-> id], view_patient(patient_json, id))

GetSort ==
    \E sort_by \in SortFieldInputs, order \in OrderInputs :
        Respond([op |-> "sort", sort_by |-> sort_by, order |-> order],
                sort_patients(patient_json, sort_by, order))

PostCreate ==
    \E body \in CreateBodies :
        Respond([op |-> "create", id |-> body.id, body |-> body],
                create_patient(patient_json, body))

PutEdit ==
    \E id \in PatientIds, body \in EditBodies :
        Respond([op |-> "update", id |-> id, body |-> body],
                edit_patient(patient_json, id, body))

DeletePatient ==
    \E id \in PatientIds :
        Respond([op |-> "delete", id |-> id], delete(patient_json, id))

\* the reply has been delivered; the server waits for the next request
NextRequest ==
    /\ ~Idle
    /\ request' = NoRequest
    /\ response' = NoResponse
    /\ before' = patient_json
    /\ io' = <<>>
    /\ UNCHANGED <<patient_json, concVars>>

Next ==
    \/ GetView
    \/ GetPatient
    \/ GetSort
    \/ PostCreate
    \/ PutEdit
    \/ DeletePatient
    \/ NextRequest

Spec == Init /\ [][Next]_vars

-----------------------------------------------------------------------------
(* Concurrent service: FastAPI runs the plain `def` handlers in a thread    *)
(* pool, so two PUT /edit requests interleave at their file calls.  Each   *)
(* worker runs edit_patient as load_data, merge, save_data.                *)

\* the record both concurrent scenarios start from
SeedPatient ==
    model_dump([id |-> "P001", name |-> "A", city |-> "X", age |-> 30,
                gender |-> "male", height |-> 175, weight |-> 70])

SeedFiles ==
    { <<[id |-> "P001", body |-> SeedPatient]>>,
      <<[id |-> "P001", body |-> SeedPatient], [id |-> "P002", body |-> SeedPatient]>> }

\* the concurrent requests set exactly one key each
ConcBodies == {p \in EditBodies : Cardinality(DOMAIN p) = 1}

InitConc ==
    /\ patient_json \in SeedFiles
    /\ request = NoRequest
    /\ response = NoResponse
    /\ before = patient_json
    /\ io = <<>>
    /\ pc = [w \in Workers |-> "load"]
    /\ data = [w \in Workers |-> <<>>]
    /\ job \in [Workers -> [id : PatientIds, body : ConcBodies]]
    /\ result = [w \in Workers |-> 0]
    /\ trace = <<>>

\* FastAPI validates the body, then the handler's first statement loads the file
LoadStep(w) ==
    /\ pc[w] = "load"
    /\ IF PatientUpdateValid(job[w].body)
       THEN /\ data' = [data EXCEPT ![w] = load_data(patient_json)]
            /\ pc' = [pc EXCEPT ![w] = "merge"]
            /\ trace' = Append(trace, [w |-> w, call |-> "load"])
            /\ UNCHANGED result
       ELSE /\ result' = [result EXCEPT ![w] = 422]
            /\ pc' = [pc EXCEPT ![w] = "done"]
            /\ UNCHANGED <<data, trace>>
    /\ UNCHANGED <<seqVars, job>>

MergeStep(w) ==
    /\ pc[w] = "merge"
    /\ LET r == edit_merge(data[w], job[w].id, job[w].body)
       IN  IF r.status = 200
           THEN /\ data' = [data EXCEPT ![w] = r.data]
                /\ pc' = [pc EXCEPT ![w] = "save"]
                /\ UNCHANGED result
           ELSE /\ result' = [result EXCEPT ![w] = r.status]
                /\ pc' = [pc EXCEPT ![w] = "done"]
                /\ UNCHANGED data
    /\ UNCHANGED <<seqVars, job, trace>>

\* a different save: only the worker's own record is written into the current file
SaveStep_OwnRecord(w) ==
    /\ pc[w] = "save"
    /\ patient_json' = SetItem(patient_json, job[w].id, Get(data[w], job[w].id))
    /\ result' = [result EXCEPT ![w] = 200]
    /\ pc' = [pc EXCEPT ![w] = "done"]
    /\ trace' = Append(trace, [w |-> w, call |-> "save"])
    /\ UNCHANGED <<request, response, before, io, data, job>>

SaveStep(w) ==
    /\ pc[w] = "save"
    /\ patient_json' = save_data(data[w])
    /\ result' = [result EXCEPT ![w] = 200]
    /\ pc' = [pc EXCEPT ![w] = "done"]
    /\ trace' = Append(trace, [w |-> w, call |-> "save"])
    /\ UNCHANGED <<request, response, before, io, data, job>>

NextConc ==
    \/ \E w \in Workers : LoadStep(w)
    \/ \E w \in Workers : MergeStep(w)
    \/ \E w \in Workers : SaveStep(w)

SpecConc == InitConc /\ [][NextConc]_vars

-----------------------------------------------------------------------------
(* The derived fields on their own: a Patient is built for each height and *)
(* weight of a grid and dumped.  On this grid weight / height^2 never lies *)
(* halfway between two hundredths, so RoundDiv agrees with Python's round  *)
(* of the float quotient.                                                  *)

CalcHeights == {100, 150, 175, 200}
MaxCalcWeight == 130

InitCalc ==
    /\ patient_json = <<>>
    /\ request \in {[op |-> "calc", height |-> h, weight |-> w] :
                       h \in CalcHeights, w \in 1..MaxCalcWeight}
    /\ response = NoResponse
    /\ before = <<>>
    /\ io = <<>>
    /\ ConcIdle

Compute ==
    /\ request.op = "calc"
    /\ response.status = 0
    /\ response' = [status |-> 200,
                    body |-> model_dump([id |-> "P001", name |-> "A", city |-> "X",
                                         age |-> 30, gender |-> "male",
                                         height |-> request.height,
                                         weight |-> request.weight])]
    /\ UNCHANGED <<patient_json, request, before, io, concVars>>

NextCalc == Compute

SpecCalc == InitCalc /\ [][NextCalc]_vars

-----------------------------------------------------------------------------
(* Properties.  The record constraints and the derived-field table are     *)
(* written here as the specification states them, independently of the     *)
(* operators above.                                                        *)

Abs(x) == IF x < 0 THEN -x ELSE x

\* b (hundredths) is weight / height^2 rounded to two decimal places
IsRounded(b, height, weight) ==
    2 * Abs(b * height * height - weight * 1000000) <= height * height

\* the threshold table of the specification, section 4.2
Classified(b, v) ==
    /\ (b < 1850) => v = "Underweight"
    /\ (1850 <= b /\ b < 3000) => v = "Normal"
    /\ (b > 3000) => v = "Overweight"
    /\ (b = 3000) <=> v = "Obese"

\* the full record constraints of the specification, section 3
RecordConstraints(r) ==
    /\ 0 <= r.age /\ r.age < 120
    /\ r.gender \in GenderLiterals
    /\ r.height > 0
    /\ r.weight > 0

Failed == response.status \notin {0, 200, 201}

\* the six own fields of body r agree with payload p
SameFields(r, p) == \A f \in UpdateFields : r[f] = p[f]

\* C1: create(r) of a valid full record with an id already in the store answers
\* 400 and leaves the store as it was; with a fresh id it answers 201 and a read
\* of r.id then returns r's fields with the derived bmi and verdict.
C1_Create ==
    (request.op = "create" /\ RecordConstraints(request.body)) =>
        IF request.id \in Keys(before)
        THEN response.status = 400 /\ patient_json = before
        ELSE /\ response.status = 201
             /\ LET rd == view_patient(patient_json, request.id)
                IN  /\ rd.status = 200
                    /\ SameFields(rd.body, request.body)
                    /\ IsRounded(rd.body.bmi, request.body.height, request.body.weight)
                    /\ Classified(rd.body.bmi, rd.body.verdict)

C1_Witness ==
    /\ request.op = "create"
    /\ RecordConstraints(request.body)
    /\ request.id \notin Keys(before)
    /\ before # <<>>
    /\ response.status = 201
    /\ Get(patient_json, request.id).verdict = "Normal"

C1_WitnessConflict ==
    /\ request.op = "create"
    /\ RecordConstraints(request.body)
    /\ request.id \in Keys(before)
    /\ response.status = 400
    /\ ~SameFields(Get(before, request.id), request.body)

C2_WitnessNotFound ==
    /\ request.op = "update"
    /\ PatientUpdateValid(request.body)
    /\ request.body # NoFields
    /\ request.id \notin Keys(before)
    /\ before # <<>>
    /\ response.status = 404

\* C3: delete(id) answers 404 on an absent id and leaves the store as it was; on a
\* present id it answers 200 and removes the id.  While an id is absent every
\* read, update (with a patch PatientUpdate accepts) or delete of it answers 404,
\* and an absent id comes back only through a successful create of that id.
C3_AbsentIsNotFound ==
    /\ (request.op = "delete") =>
           IF request.id \notin Keys(before)
           THEN response.status = 404 /\ patient_json = before
           ELSE /\ response.status = 200
                /\ request.id \notin Keys(patient_json)
                /\ view_patient(patient_json, request.id).status = 404
                /\ delete(patient_json, request.id).status = 404
                /\ \A body \in EditBodies :
                       PatientUpdateValid(body) =>
                           edit_patient(patient_json, request.id, body).status = 404
    /\ (request.op \in {"read", "delete"} /\ request.id \notin Keys(before)) =>
           response.status = 404
    /\ (request.op = "update" /\ PatientUpdateValid(request.body)
            /\ request.id \notin Keys(before)) =>
           response.status = 404

C3_OnlyCreateBringsBack ==
    \A id \in PatientIds :
        (id \notin Keys(patient_json) /\ id \in Keys(patient_json')) =>
            (request'.op = "create" /\ request'.id = id /\ response'.status = 201)

C3_WitnessAfter ==
    /\ request.op = "read"
    /\ request.id \notin Keys(before)
    /\ before # <<>>
    /\ response.status = 404

\* C4: for every height > 0 and weight > 0 the dumped bmi is weight / height^2
\* rounded to two decimal places, and the verdict follows the table: Underweight
\* below 18.5, Normal from 18.5 to below 30, Overweight above 30, Obese at
\* exactly 30 and nowhere else.
C4_Calc ==
    (request.op = "calc" /\ response.status = 200) =>
        /\ IsRounded(response.body.bmi, request.height, request.weight)
        /\ Classified(response.body.bmi, response.body.verdict)
        /\ response.body.verdict \in {"Underweight", "Normal", "Overweight", "Obese"}

C4_Witness ==
    /\ request.op = "calc"
    /\ response.status = 200
    /\ request.height = 200
    /\ response.body.bmi = 3000
    /\ response.body.verdict = "Obese"

\* C5: every stored record's bmi is weight / height^2 of its current height and
\* weight rounded to two decimal places and its verdict is the classification of
\* that bmi, whatever bmi a request payload carried.
C5_Derived ==
    \A i \in DOMAIN patient_json :
        LET r == patient_json[i].body
        IN  /\ r.height > 0
            /\ IsRounded(r.bmi, r.height, r.weight)
            /\ Classified(r.bmi, r.verdict)

C5_Witness ==
    /\ request.op = "update"
    /\ response.status = 200
    /\ DOMAIN request.body = {"weight", "bmi"}
    /\ Get(patient_json, request.id).bmi # Get(before, request.id).bmi
    /\ Get(patient_json, request.id).bmi # request.body.bmi

C5_WitnessCreate ==
    /\ request.op = "create"
    /\ response.status = 201
    /\ "bmi" \in DOMAIN request.body
    /\ Get(patient_json, request.id).bmi # request.body.bmi

\* C6: every persisted record satisfies the full record constraints: 0 <= age <
\* 120, height > 0, weight > 0, gender in the literal set; no request gets a
\* record with weight = 0 or height = 0 saved.
C6_ValidRecords ==
    \A i \in DOMAIN patient_json : RecordConstraints(patient_json[i].body)

\* C7: sort(field, order) is accepted exactly when field is one of height, weight,
\* bmi and order is one of asc, desc; a rejection makes no file call, and no sort
\* changes the store.
C7_SortAccepted ==
    (request.op = "sort") =>
        /\ (response.status = 200) <=>
               (request.sort_by \in {"height", "weight", "bmi"}
                    /\ request.order \in {"asc", "desc"})
        /\ (response.status # 200) => io = <<>>
        /\ patient_json = before

Count(s, x) == Cardinality({i \in DOMAIN s : s[i] = x})

IsPermutation(s, t) ==
    /\ Len(s) = Len(t)
    /\ \A i \in DOMAIN s : Count(s, s[i]) = Count(t, s[i])

\* C8: for every store and every field among height, weight, bmi and order among
\* asc, desc the sort answers with a permutation of all stored record bodies whose
\* keys (0 for a missing field) are non-decreasing for asc and non-increasing for
\* desc.
C8_SortResult ==
    (request.op = "sort" /\ request.sort_by \in {"height", "weight", "bmi"}
         /\ request.order \in {"asc", "desc"}) =>
        /\ response.status = 200
        /\ IsPermutation(response.body, Values(before))
        /\ \A i, j \in DOMAIN response.body :
               i < j =>
                   LET ki == SortKey(response.body[i], request.sort_by)
                       kj == SortKey(response.body[j], request.sort_by)
                   IN  IF request.order = "asc" THEN ki <= kj ELSE ki >= kj

\* C9: a request that ends in an error (404, 400, 422, or an exception in the
\* handler) leaves patient.json exactly as it was before the request.
C9_ErrorsLeaveStore == Failed => patient_json = before

C9_Witness ==
    /\ request.op = "update"
    /\ PatientUpdateValid(request.body)
    /\ DOMAIN request.body = {"age", "weight"}
    /\ response.status = 500
    /\ io = <<"load">>
    /\ request.body.weight # Get(before, request.id).weight

\* position of worker w's file call in the trace (w made it exactly once)
Pos(w, call) == CHOOSE i \in DOMAIN trace : trace[i] = [w |-> w, call |-> call]

\* both requests answered 200, `last` saved after `first` and had loaded before
\* `first` saved
Raced(first, last) ==
    /\ first # last
    /\ result[first] = 200
    /\ result[last] = 200
    /\ Pos(first, "save") < Pos(last, "save")
    /\ Pos(last, "load") < Pos(first, "save")

\* C10: when two concurrent updates both report success and the later saver had
\* loaded before the earlier one saved, the final store is the initial store with
\* only the later saver's change: the earlier saver's change is lost.
C10_LastWriterWins ==
    \A first, last \in Workers :
        Raced(first, last) =>
            patient_json = edit_merge(before, job[last].id, job[last].body).data

\* the earlier saver's patch named a new value, the final store does not have it,
\* and the later saver's change is there
LostUpdate(first, last) ==
    /\ Raced(first, last)
    /\ \E f \in DOMAIN job[first].body \cap UpdateFields :
           /\ Get(before, job[first].id)[f] # job[first].body[f]
           /\ Get(patient_json, job[first].id)[f] = Get(before, job[first].id)[f]
    /\ Get(patient_json, job[last].id) # Get(before, job[last].id)

C10_Witness ==
    \E first, last \in Workers :
        LostUpdate(first, last) /\ job[first].id # job[last].id

C10_WitnessSameId ==
    \E first, last \in Workers :
        LostUpdate(first, last) /\ job[first].id = job[last].id

\* the per-field record constraints of the specification, applied to the keys a
\* PUT body sets
PatchMeetsConstraints(body) ==
    /\ ("name" \in DOMAIN body) => body.name # Null
    /\ ("city" \in DOMAIN body) => body.city # Null
    /\ ("age" \in DOMAIN body) => (0 <= body.age /\ body.age < 120)
    /\ ("gender" \in DOMAIN body) => body.gender \in GenderLiterals
    /\ ("height" \in DOMAIN body) => body.height > 0
    /\ ("weight" \in DOMAIN body) => body.weight > 0

\* C11: on an existing id, an update whose present fields each meet the record
\* constraints (0 <= age < 120, height > 0, weight > 0, gender in the literal set)
\* is accepted and persisted, and one with a present field violating its
\* constraint is rejected; so age = 0 is accepted and age >= 120 is rejected.
C11_SameConstraints ==
    (request.op = "update" /\ request.id \in Keys(before)) =>
        IF PatchMeetsConstraints(request.body)
        THEN /\ response.status = 200
             /\ \A f \in DOMAIN request.body \cap UpdateFields :
                    Get(patient_json, request.id)[f] = request.body[f]
        ELSE Failed /\ patient_json = before

\* C12: each successful mutation applies one change: create(r) adds only the key
\* r.id, delete(id) removes only the key id, update(id, patch) keeps the key set;
\* the records stored under every other id stay as they were, so no record ever
\* moves to another id.
C12_OneChange ==
    (request.op \in {"create", "update", "delete"} /\ response.status \in {200, 201}) =>
        /\ Len(patient_json) = Cardinality(Keys(patient_json))
        /\ Keys(patient_json) =
               IF request.op = "create" THEN Keys(before) \cup {request.id}
               ELSE IF request.op = "delete" THEN Keys(before) \ {request.id}
               ELSE Keys(before)
        /\ (request.op = "create") => request.id \notin Keys(before)
        /\ (request.op = "delete") => request.id \in Keys(before)
        /\ \A id \in Keys(before) \ {request.id} :
               /\ id \in Keys(patient_json)
               /\ Get(patient_json, id) = Get(before, id)

C12_Witness ==
    /\ request.op = "update"
    /\ response.status = 200
    /\ Len(before) = 2
    /\ before[2].id = request.id
    /\ Get(patient_json, request.id) # Get(before, request.id)
    /\ Get(patient_json, before[1].id) # Get(patient_json, request.id)

C12_WitnessDelete ==
    /\ request.op = "delete"
    /\ response.status = 200
    /\ Len(before) = 2
    /\ before[1].id = request.id
    /\ Len(patient_json) = 1

C12_WitnessCreate ==
    /\ request.op = "create"
    /\ response.status = 201
    /\ Len(before) = 1
    /\ Len(patient_json) = 2

\* C13: no persisted record value contains an id field: the id is only the key,
\* and the id update adds while building the Patient object is gone again when
\* the collection is saved.
C13_NoIdInValue ==
    \A i \in DOMAIN patient_json : "id" \notin DOMAIN patient_json[i].body

C13_Witness ==
    /\ request.op = "update"
    /\ response.status = 200
    /\ io = <<"load", "save">>
    /\ Get(patient_json, request.id) # Get(before, request.id)
    /\ DOMAIN Get(patient_json, request.id) = UpdateFields \cup {"bmi", "verdict"}

====
